---- MODULE Spec2Model ----
(***************************************************************************)
(* Model of the API methods of StencilContext in                           *)
(* src/kernel/lib/soln_apis.cpp (YASK): the macro-generated per-dimension  *)
(* getters and setters, prepare_solution(), end_solution(),                *)
(* share_grid_storage(), addGrid(), get_stats() and clear_timers().        *)
(*                                                                         *)
(* Methods this file calls but does not define (checkDimType,              *)
(* update_grid_info, adjustSettings, setupRank, the alloc/free family,     *)
(* exchange_halos, the grid's share_storage/release_storage) are modelled  *)
(* from the written specification of the subsystem.                        *)
(***************************************************************************)
EXTENDS Integers, Sequences, FiniteSets, TLC

\* ------------------------------------------------------------------------
\* Bounds of the model.

\* Largest value a caller passes to a setter; callers pass 0 or MaxVal.
MaxVal == 2

\* Largest raw sample a timer holds, in timer ticks.
MaxTime == 2

\* Largest number of region threads.
MaxThreads == 2

\* Largest per-pack step count.
MaxSteps == 1

\* ------------------------------------------------------------------------
\* Dimensions: one of each kind.

StepDims == {"t"}

DomainDims == {"x"}

MiscDims == {"m"}

Dims == StepDims \cup DomainDims \cup MiscDims

StencilDims == StepDims \cup DomainDims

Values == {0, MaxVal}

Min(a, b) == IF a <= b THEN a ELSE b

Max(a, b) == IF a >= b THEN a ELSE b

\* ------------------------------------------------------------------------
\* The solution's state.

VARIABLES
    opts,                  \* _opts: the settings tuples, keyed by dimension
    overall_domain_sizes,  \* overall_domain_sizes[dim]
    rank_bb,               \* rank_bb: bb_valid, bb_begin[dim], bb_end[dim]
    ext_bb,                \* ext_bb: bb_valid
    gridPtrs,              \* gridPtrs: master list of grid handles
    gridMap,               \* gridMap: name -> handle
    outputGridPtrs,        \* outputGridPtrs: output list
    outputGridMap,         \* outputGridMap: name -> handle
    storage,               \* storage block each grid handle refers to (0: none)
    scratch,               \* scratch-grid data allocated
    mpiData,               \* inter-rank buffers allocated
    threads,               \* active thread count: "max" (process default) or "region"
    rthr,                  \* number of region threads
    timers,                \* run_time, ext_time, int_time, halo_time, wait_time, test_time
    steps_done,            \* aggregate step counter
    packs,                 \* per pack: timer, steps_done, block_sizes of its local settings
    stats,                 \* the Stats object of the last get_stats()
    source,                \* the other solution of share_grid_storage: gridMap, storage
    lastCall,              \* the last API call: op, dim, n
    ret,                   \* its outcome: status and returned value
    hist,                  \* history: what the last call found, what has happened so far
    ranks                  \* per rank of the job: where it is in end_solution(), what it holds

vars == <<opts, overall_domain_sizes, rank_bb, ext_bb, gridPtrs, gridMap,
          outputGridPtrs, outputGridMap, storage, scratch, mpiData, threads,
          rthr, timers, steps_done, packs, stats, source, lastCall, ret, hist, ranks>>

\* The state of the one solution the calls are made on.
solnVars == <<opts, overall_domain_sizes, rank_bb, ext_bb, gridPtrs, gridMap,
              outputGridPtrs, outputGridMap, storage, scratch, mpiData, threads,
              rthr, timers, steps_done, packs, stats, source, lastCall, ret, hist>>

geomVars == <<opts, overall_domain_sizes, rank_bb, ext_bb>>

regVars == <<gridPtrs, gridMap, outputGridPtrs, outputGridMap>>

allocVars == <<storage, scratch, mpiData, threads>>

timeVars == <<timers, steps_done, packs, rthr>>

\* ------------------------------------------------------------------------
\* Per-dimension getters and setters (the GET_SOLN_API / SET_SOLN_API tables).

GetApis == {"get_num_ranks", "get_overall_domain_size", "get_rank_domain_size",
            "get_region_size", "get_block_size", "get_first_rank_domain_index",
            "get_last_rank_domain_index", "get_min_pad_size", "get_rank_index"}

SetApis == {"set_rank_index", "set_num_ranks", "set_rank_domain_size",
            "set_region_size", "set_block_size", "set_min_pad_size"}

\* step_ok argument of each instantiation.
step_ok(api) == api \in {"get_region_size", "get_block_size",
                         "set_region_size", "set_block_size"}

\* domain_ok argument of each instantiation.
domain_ok(api) == TRUE

\* misc_ok argument of each instantiation.
misc_ok(api) == FALSE

\* prep_req with get_rank_index instantiated with false.
prep_req_rank_index_unflagged(api) ==
    api \in {"get_overall_domain_size", "get_first_rank_domain_index",
             "get_last_rank_domain_index"}

\* prep_req with get_overall_domain_size instantiated with prep_req=false.
prep_req_overall_unflagged(api) ==
    api \in {"get_first_rank_domain_index", "get_last_rank_domain_index", "get_rank_index"}

\* prep_req argument of each GET_SOLN_API instantiation.
prep_req(api) == api \in {"get_overall_domain_size", "get_first_rank_domain_index",
                          "get_last_rank_domain_index", "get_rank_index"}

\* reset_prep with set_region_size instantiated with false.
reset_prep_region_unflagged(api) ==
    api \in {"set_rank_index", "set_num_ranks", "set_rank_domain_size", "set_block_size"}

\* reset_prep TRUE for every setter, set_min_pad_size included.
reset_prep_every_setter(api) == TRUE

\* reset_prep argument of each SET_SOLN_API instantiation.
reset_prep(api) == api \in {"set_rank_index", "set_num_ranks", "set_rank_domain_size",
                            "set_region_size", "set_block_size"}

\* SetField with set_block_size assigning to the region sizes.
SetField_block_as_region(api) ==
    CASE api = "set_rank_index" -> "rank_indices"
      [] api = "set_num_ranks" -> "num_ranks"
      [] api = "set_rank_domain_size" -> "rank_sizes"
      [] api = "set_region_size" -> "region_sizes"
      [] api = "set_block_size" -> "region_sizes"
      [] api = "set_min_pad_size" -> "min_pad_sizes"

\* The settings tuple each setter assigns to.
SetField(api) ==
    CASE api = "set_rank_index" -> "rank_indices"
      [] api = "set_num_ranks" -> "num_ranks"
      [] api = "set_rank_domain_size" -> "rank_sizes"
      [] api = "set_region_size" -> "region_sizes"
      [] api = "set_block_size" -> "block_sizes"
      [] api = "set_min_pad_size" -> "min_pad_sizes"

\* checkDimType(dim, fn, step_ok, domain_ok, misc_ok): TRUE when the call
\* passes, FALSE when it throws.
checkDimType(dim, s_ok, d_ok, m_ok) ==
    \/ dim \in StepDims /\ s_ok
    \/ dim \in DomainDims /\ d_ok
    \/ dim \in MiscDims /\ m_ok

Ok(v) == [status |-> "ok", value |-> v]

Thrown(what) == [status |-> what, value |-> 0]

\* The expr argument of each GET_SOLN_API instantiation.
GetExpr(api, dim) ==
    CASE api = "get_num_ranks" -> opts.num_ranks[dim]
      [] api = "get_overall_domain_size" -> overall_domain_sizes[dim]
      [] api = "get_rank_domain_size" -> opts.rank_sizes[dim]
      [] api = "get_region_size" -> opts.region_sizes[dim]
      [] api = "get_block_size" -> opts.block_sizes[dim]
      [] api = "get_first_rank_domain_index" -> rank_bb.bb_begin[dim]
      [] api = "get_last_rank_domain_index" -> rank_bb.bb_end[dim] - 1
      [] api = "get_min_pad_size" -> opts.min_pad_sizes[dim]
      [] api = "get_rank_index" -> opts.rank_indices[dim]

\* GetResult with the dimension check ahead of the preparation check.
GetResult_kind_first(api, dim) ==
    IF ~checkDimType(dim, step_ok(api), domain_ok(api), misc_ok(api))
    THEN Thrown("InvalidDimensionKind")
    ELSE IF prep_req(api) /\ ~rank_bb.bb_valid
         THEN Thrown("PreparationRequired")
         ELSE Ok(GetExpr(api, dim))

\* What a getter call returns or throws in the current state.
GetResult(api, dim) ==
    IF prep_req(api) /\ ~rank_bb.bb_valid
    THEN Thrown("PreparationRequired")
    ELSE IF ~checkDimType(dim, step_ok(api), domain_ok(api), misc_ok(api))
         THEN Thrown("InvalidDimensionKind")
         ELSE Ok(GetExpr(api, dim))

\* update_grid_info(): the aggregate sizes that depend on the settings o.
update_grid_info(o) ==
    [d \in DomainDims |-> o.rank_sizes[d] * o.num_ranks[d]]

\* The setters of the parameters the geometry depends on.
GeometrySetters == {"set_rank_index", "set_num_ranks", "set_rank_domain_size",
                    "set_region_size", "set_block_size"}

\* History. Every call records what it found: pre_valid, the validity of the
\* rank bounding box; pre_reg, the registry (addGrid only); prev_run, the run
\* time of the report before it when that was the previous call (get_stats
\* only, -1 otherwise); released, the grids whose storage it gave up
\* (end_solution only). dirty: a geometry setter has succeeded since the rank
\* geometry was last computed. prepare_called, ended, shared: the call has
\* happened. pre_tuned: some pack's local block sizes differed from the
\* settings before the call (prepare_solution only). calls: the calls it made,
\* in their order (prepare_solution only). registered: the grids given to
\* addGrid under a name none before them carried, each with its is_output, in
\* the order of the calls.
HistReset == [hist EXCEPT !.pre_valid = rank_bb.bb_valid,
                          !.pre_reg = <<>>,
                          !.prev_run = 0 - 1,
                          !.released = {},
                          !.pre_tuned = FALSE,
                          !.calls = <<>>]

\* idx_t api_name(const string& dim) const
GET_SOLN_API(api, dim) ==
    /\ ret' = GetResult(api, dim)
    /\ lastCall' = [op |-> api, dim |-> dim, n |-> 0]
    /\ hist' = HistReset
    /\ UNCHANGED <<geomVars, regVars, allocVars, timeVars, stats, source, ranks>>

\* The bounding-box flags after a setter's last statement.
ResetPrep(api, bb) == IF reset_prep(api) THEN [bb EXCEPT !.bb_valid = FALSE] ELSE bb

\* The setter with the invalidation ahead of the dimension check.
SET_SOLN_API_checked_last(api, dim, n) ==
    /\ lastCall' = [op |-> api, dim |-> dim, n |-> n]
    /\ rank_bb' = ResetPrep(api, rank_bb)
    /\ ext_bb' = ResetPrep(api, ext_bb)
    /\ IF ~checkDimType(dim, step_ok(api), domain_ok(api), misc_ok(api))
       THEN /\ ret' = Thrown("InvalidDimensionKind")
            /\ hist' = HistReset
            /\ UNCHANGED <<opts, overall_domain_sizes>>
       ELSE /\ opts' = [opts EXCEPT ![SetField(api)][dim] = n]
            /\ overall_domain_sizes' = update_grid_info(opts')
            /\ ret' = Ok(0)
            /\ hist' = [HistReset EXCEPT !.dirty = hist.dirty \/ api \in GeometrySetters]
    /\ UNCHANGED <<regVars, allocVars, timeVars, stats, source, ranks>>

\* void api_name(const string& dim, idx_t n)
SET_SOLN_API(api, dim, n) ==
    /\ lastCall' = [op |-> api, dim |-> dim, n |-> n]
    /\ IF ~checkDimType(dim, step_ok(api), domain_ok(api), misc_ok(api))
       THEN /\ ret' = Thrown("InvalidDimensionKind")
            /\ hist' = HistReset
            /\ UNCHANGED geomVars
       ELSE /\ opts' = [opts EXCEPT ![SetField(api)][dim] = n]
            /\ overall_domain_sizes' = update_grid_info(opts')
            /\ rank_bb' = ResetPrep(api, rank_bb)
            /\ ext_bb' = ResetPrep(api, ext_bb)
            /\ ret' = Ok(0)
            /\ hist' = [HistReset EXCEPT !.dirty = hist.dirty \/ api \in GeometrySetters]
    /\ UNCHANGED <<regVars, allocVars, timeVars, stats, source, ranks>>

\* ------------------------------------------------------------------------
\* Statistics.

\* Number of stencil packs of the solution.
NumPacks == 2

Packs == 1..NumPacks

ZeroTimers == [run |-> 0, ext |-> 0, int |-> 0, halo |-> 0, wait |-> 0, test |-> 0]

\* clear_timers without run_time.clear() and without the packs' counters.
clear_timers_partial(pk) ==
    [timers |-> [ZeroTimers EXCEPT !.run = timers.run],
     steps_done |-> 0,
     packs |-> [p \in Packs |-> [pk[p] EXCEPT !.timer = 0]]]

\* void StencilContext::clear_timers(): the timers and counters it leaves.
clear_timers(pk) ==
    [timers |-> ZeroTimers,
     steps_done |-> 0,
     packs |-> [p \in Packs |-> [pk[p] EXCEPT !.timer = 0, !.steps_done = 0]]]

\* ------------------------------------------------------------------------
\* prepare_solution().

\* The call of prepare_solution() that throws, if any.
FailPoints == {"none", "adjustSettings", "setupRank", "allocGridData",
               "allocScratchData", "allocMpiData"}

\* Position of each step that may throw, in the order of the calls.
StepNo(f) ==
    CASE f = "adjustSettings" -> 1
      [] f = "setupRank" -> 2
      [] f = "allocGridData" -> 3
      [] f = "allocScratchData" -> 4
      [] f = "allocMpiData" -> 5
      [] f = "none" -> 6

\* prepare_solution with the scratch grids and the MPI buffers freed after
\* the grids were allocated.
PrepareSteps_grids_first ==
    <<"global_barrier", "clear_timers", "adjustSettings", "getLocalSettings",
      "reset_auto_tuner", "set_region_threads", "yask_for", "setupRank",
      "allocGridData", "freeScratchData", "freeMpiData",
      "allocScratchData", "allocMpiData", "print_info">>

\* The calls of prepare_solution(), in the order of its statements.
PrepareSteps ==
    <<"global_barrier", "clear_timers", "adjustSettings", "getLocalSettings",
      "reset_auto_tuner", "set_region_threads", "yask_for", "setupRank",
      "freeScratchData", "freeMpiData", "allocGridData",
      "allocScratchData", "allocMpiData", "print_info">>

\* The calls made by a prepare_solution() that throws at f: every statement
\* up to the call that throws, and every statement when none does.
Calls(f) ==
    IF f = "none" THEN PrepareSteps
    ELSE SubSeq(PrepareSteps, 1,
                CHOOSE i \in DOMAIN PrepareSteps : PrepareSteps[i] = f)

\* TRUE when the step runs to completion in a call that throws at f.
Done(step, f) == StepNo(step) < StepNo(f)

\* _opts->adjustSettings(): region sizes default to and are limited by the
\* rank size, block sizes default to and are limited by the region size.
adjustSettings(o) ==
    LET region == [d \in StencilDims |->
                     IF d \in DomainDims
                        /\ (o.region_sizes[d] = 0 \/ o.region_sizes[d] > o.rank_sizes[d])
                     THEN o.rank_sizes[d] ELSE o.region_sizes[d]]
        block == [d \in StencilDims |->
                     IF d \in DomainDims
                        /\ (o.block_sizes[d] = 0 \/ o.block_sizes[d] > region[d])
                     THEN region[d] ELSE o.block_sizes[d]]
    IN  [o EXCEPT !.region_sizes = region, !.block_sizes = block]

\* setupRank(): this rank's bounding box from the settings o.
setupRank(o) ==
    [bb_valid |-> TRUE,
     bb_begin |-> [d \in DomainDims |-> o.rank_indices[d] * o.rank_sizes[d]],
     bb_end |-> [d \in DomainDims |-> o.rank_indices[d] * o.rank_sizes[d] + o.rank_sizes[d]]]

\* Grid handles. A handle's name is fixed; two handles may carry one name.
NumGrids == 3

GridHandles == 1..NumGrids

GridNames == {"temperature", "pressure"}

get_name(gp) == IF gp % 2 = 1 THEN "temperature" ELSE "pressure"

Range(seq) == {seq[i] : i \in DOMAIN seq}

\* Handles of the grids of the other solution, by name.
SourceHandle(gname) == IF gname = "temperature" THEN 0 - 1 ELSE 0 - 2

\* allocGridData(): every registered grid without storage gets its own block.
allocGridData(st, ptrs) ==
    [gp \in GridHandles |-> IF gp \in Range(ptrs) /\ st[gp] = 0 THEN gp ELSE st[gp]]

\* The copy to the packs that leaves every pack's local settings as they are.
CopySettings_skipped(pk, o) == pk

\* for (auto& sp : stPacks) sp->getLocalSettings() = *_opts;
\* Of a pack's local settings the block sizes are kept, which are what the
\* auto-tuner of a pack changes.
CopySettings(pk, o) == [p \in Packs |-> [pk[p] EXCEPT !.block_sizes = o.block_sizes]]

\* void StencilContext::prepare_solution(), throwing at step f (or not at all).
prepare_solution(f) ==
    LET cleared == clear_timers(packs)
        adjusted == IF Done("adjustSettings", f) THEN adjustSettings(opts) ELSE opts
        copied == Done("adjustSettings", f)
        ranked == Done("setupRank", f)
    IN  /\ timers' = cleared.timers
        /\ steps_done' = cleared.steps_done
        /\ opts' = adjusted
        /\ packs' = IF copied THEN CopySettings(cleared.packs, adjusted) ELSE cleared.packs
        /\ threads' = IF copied THEN "region" ELSE threads
        /\ rank_bb' = IF ranked THEN setupRank(adjusted) ELSE rank_bb
        /\ ext_bb' = IF ranked THEN [ext_bb EXCEPT !.bb_valid = TRUE] ELSE ext_bb
        /\ overall_domain_sizes' =
              IF ranked THEN update_grid_info(adjusted) ELSE overall_domain_sizes
        /\ scratch' = IF ranked THEN Done("allocScratchData", f) ELSE scratch
        /\ mpiData' = IF ranked THEN Done("allocMpiData", f) ELSE mpiData
        /\ storage' = IF Done("allocGridData", f)
                      THEN allocGridData(storage, gridPtrs) ELSE storage
        /\ lastCall' = [op |-> "prepare_solution", dim |-> "-", n |-> 0]
        /\ ret' = IF f = "none" THEN Ok(0) ELSE Thrown("Failed")
        /\ hist' = [HistReset EXCEPT !.dirty = IF ranked THEN FALSE ELSE hist.dirty,
                                     !.prepare_called = TRUE,
                                     !.pre_tuned = \E p \in Packs :
                                         packs[p].block_sizes # opts.block_sizes,
                                     !.calls = Calls(f)]
        /\ UNCHANGED <<regVars, rthr, stats, source, ranks>>

\* ------------------------------------------------------------------------
\* end_solution(), share_grid_storage(), addGrid().

\* The grids whose storage the release loop of end_solution() gives up.
Releasable(st, ptrs) == {gp \in Range(ptrs) : st[gp] # 0}

\* for (auto gp : gridPtrs) gp->release_storage(): the grid refers to no
\* storage afterwards.
release_storage(st, ptrs) ==
    [gp \in GridHandles |-> IF gp \in Range(ptrs) THEN 0 ELSE st[gp]]

\* void StencilContext::end_solution()
end_solution ==
    /\ mpiData' = FALSE
    /\ storage' = release_storage(storage, gridPtrs)
    /\ threads' = "max"
    /\ lastCall' = [op |-> "end_solution", dim |-> "-", n |-> 0]
    /\ ret' = Ok(0)
    /\ hist' = [HistReset EXCEPT !.released = Releasable(storage, gridPtrs),
                                 !.ended = TRUE]
    /\ UNCHANGED <<geomVars, regVars, scratch, timeVars, stats, source, ranks>>

\* share_storage without the look-up by name: every grid takes the storage of
\* the source's first grid.
share_storage_unmatched(st, ptrs, sp) ==
    [gp \in GridHandles |->
        IF gp \in Range(ptrs) THEN sp.storage[SourceHandle("temperature")] ELSE st[gp]]

\* share_storage taking the storage away from a grid the source has no grid
\* named like.
share_storage_dropping(st, ptrs, sp) ==
    [gp \in GridHandles |->
        IF gp \in Range(ptrs)
        THEN IF get_name(gp) \in DOMAIN sp.gridMap
             THEN sp.storage[sp.gridMap[get_name(gp)]] ELSE 0
        ELSE st[gp]]

\* The storage of this solution's grids after the loop of share_grid_storage():
\* gp->share_storage(sgp) makes gp refer to the storage of sgp.
share_storage(st, ptrs, sp) ==
    [gp \in GridHandles |->
        IF gp \in Range(ptrs) /\ get_name(gp) \in DOMAIN sp.gridMap
        THEN sp.storage[sp.gridMap[get_name(gp)]]
        ELSE st[gp]]

\* void StencilContext::share_grid_storage(yk_solution_ptr source)
share_grid_storage ==
    /\ storage' = share_storage(storage, gridPtrs, source)
    /\ lastCall' = [op |-> "share_grid_storage", dim |-> "-", n |-> 0]
    /\ ret' = Ok(0)
    /\ hist' = [HistReset EXCEPT !.shared = TRUE]
    /\ UNCHANGED <<geomVars, regVars, scratch, mpiData, threads, timeVars, stats, source, ranks>>

\* Exists looking for nothing.
Exists_never(map, gname) == FALSE

\* Put that leaves the new entry alone in the map.
Put_replacing(map, gname, gp) == [k \in {gname} |-> gp]

\* gridMap.count(gname)
Exists(map, gname) == gname \in DOMAIN map

\* map[gname] = gp
Put(map, gname, gp) ==
    [k \in DOMAIN map \cup {gname} |-> IF k = gname THEN gp ELSE map[k]]

\* void StencilContext::addGrid(YkGridPtr gp, bool is_output)
addGrid(gp, is_output) ==
    /\ lastCall' = [op |-> "addGrid", dim |-> "-", n |-> gp]
    /\ hist' = [HistReset EXCEPT
                   !.pre_reg = <<gridPtrs, gridMap, outputGridPtrs, outputGridMap>>,
                   !.registered =
                       IF get_name(gp) \in {get_name(e[1]) : e \in Range(hist.registered)}
                       THEN hist.registered
                       ELSE Append(hist.registered, <<gp, is_output>>)]
    /\ IF Exists(gridMap, get_name(gp))
       THEN /\ ret' = Thrown("DuplicateGrid")
            /\ UNCHANGED regVars
       ELSE /\ gridPtrs' = Append(gridPtrs, gp)
            /\ gridMap' = Put(gridMap, get_name(gp), gp)
            /\ outputGridPtrs' = IF is_output THEN Append(outputGridPtrs, gp)
                                 ELSE outputGridPtrs
            /\ outputGridMap' = IF is_output THEN Put(outputGridMap, get_name(gp), gp)
                                ELSE outputGridMap
            /\ ret' = Ok(0)
    /\ UNCHANGED <<geomVars, allocVars, timeVars, stats, source, ranks>>

\* ------------------------------------------------------------------------
\* get_stats(). Times are kept as multiples of 1/rthr of a tick, so that the
\* average test time test/rthr is exact: a raw sample x is x * rthr.

\* itime -= ttime; itime = min(itime, rtime - hetime - etime);
InteriorTime(itime, ttime, budget) == Min(itime - ttime, budget)

\* double otime = max(rtime - ctime - htime, 0.0);
OtherTime(rtime, ctime, htime) == Max(rtime - ctime - htime, 0)

\* The time breakdown computed from the raw samples t with r region threads.
Breakdown(t, r) ==
    LET rtime == t.run * r
        hetime == Min(t.halo * r, rtime)
        wtime == Min(t.wait * r, hetime)
        etime == Min(t.ext * r, rtime - hetime)
        ttime == t.test
        itime == InteriorTime(t.int * r, ttime, rtime - hetime - etime)
        ctime == etime + itime
        htime == hetime + ttime
        otime == OtherTime(rtime, ctime, htime)
    IN  [den |-> r, rtime |-> rtime, hetime |-> hetime, wtime |-> wtime,
         etime |-> etime, itime |-> itime, ttime |-> ttime, ctime |-> ctime,
         htime |-> htime, otime |-> otime]

\* double ptime = min(sp->timer.get_elapsed_secs(), ctime - tptime)
PackTime(elapsed, ctime, tptime) == Min(elapsed, ctime - tptime)

\* tptime after the packs 1..n of the loop over stPacks.
RECURSIVE SumPackTime(_, _, _, _)
SumPackTime(pk, r, ctime, n) ==
    IF n = 0 THEN 0
    ELSE LET before == SumPackTime(pk, r, ctime, n - 1)
         IN  before + PackTime(pk[n].timer * r, ctime, before)

\* The work of one step of pack p: the reads, writes and floating-point
\* operations the pack counts per step.
tot_reads_per_step(p) == p + 1

tot_writes_per_step(p) == p

tot_fpops_per_step(p) == 2 * p

RECURSIVE Product(_, _)
Product(f, S) ==
    IF S = {} THEN 1
    ELSE LET d == CHOOSE e \in S : TRUE
         IN  f[d] * Product(f, S \ {d})

\* The points of the overall domain.
tot_domain_pts == Product(overall_domain_sizes, DomainDims)

\* A rate n per second over a time of time/den ticks, kept as the fraction
\* num/over it is the quotient of.
Rate(n, time, den) == [num |-> n * den, over |-> time]

ZeroRate == [num |-> 0, over |-> 1]

\* The rate computed for any time that is not negative.
GuardedRate_from_zero(n, time, den) ==
    IF time >= 0 THEN Rate(n, time, den) ELSE ZeroRate

\* ps.reads_ps = 0.; if (ptime > 0.) ps.reads_ps = ps.nreads / ptime;
\* and the same for the other rates of a pack and for the overall rates.
GuardedRate(n, time, den) ==
    IF time > 0 THEN Rate(n, time, den) ELSE ZeroRate

\* The stats of every pack.
PackStats(pk, r, ctime) ==
    [p \in Packs |->
        LET ns == pk[p].steps_done
            ptime == PackTime(pk[p].timer * r, ctime, SumPackTime(pk, r, ctime, p - 1))
            nreads == tot_reads_per_step(p) * ns
            nwrites == tot_writes_per_step(p) * ns
            nfpops == tot_fpops_per_step(p) * ns
            np == tot_domain_pts * ns
        IN  [nsteps |-> ns,
             run_time |-> ptime,
             nreads |-> nreads,
             nwrites |-> nwrites,
             nfpops |-> nfpops,
             reads_ps |-> GuardedRate(nreads, ptime, r),
             writes_ps |-> GuardedRate(nwrites, ptime, r),
             flops |-> GuardedRate(nfpops, ptime, r),
             pts_ps |-> GuardedRate(np, ptime, r)]]

\* p->nreads += ps.nreads, and so on: the sum of f over the packs 1..n.
RECURSIVE SumTo(_, _)
SumTo(f, n) == IF n = 0 THEN 0 ELSE SumTo(f, n - 1) + f[n]

\* yk_stats_ptr StencilContext::get_stats()
get_stats ==
    LET b == Breakdown(timers, rthr)
        cleared == clear_timers(packs)
        ps == PackStats(packs, rthr, b.ctime)
        nreads == SumTo([p \in Packs |-> ps[p].nreads], NumPacks)
        nwrites == SumTo([p \in Packs |-> ps[p].nwrites], NumPacks)
        nfpops == SumTo([p \in Packs |-> ps[p].nfpops], NumPacks)
        npts_done == tot_domain_pts * steps_done
    IN  /\ stats' = [times |-> b,
                     nsteps |-> steps_done,
                     run_time |-> b.rtime,
                     halo_time |-> b.htime,
                     nreads |-> nreads,
                     nwrites |-> nwrites,
                     nfpops |-> nfpops,
                     reads_ps |-> GuardedRate(nreads, b.rtime, rthr),
                     writes_ps |-> GuardedRate(nwrites, b.rtime, rthr),
                     flops |-> GuardedRate(nfpops, b.rtime, rthr),
                     pts_ps |-> GuardedRate(npts_done, b.rtime, rthr),
                     pack |-> ps,
                     optime |-> Max(b.ctime - SumPackTime(packs, rthr, b.ctime, NumPacks), 0),
                     raw |-> timers,
                     raw_pack |-> [p \in Packs |-> packs[p].timer]]
        /\ timers' = cleared.timers
        /\ steps_done' = cleared.steps_done
        /\ packs' = cleared.packs
        /\ lastCall' = [op |-> "get_stats", dim |-> "-", n |-> 0]
        /\ ret' = Ok(0)
        /\ hist' = [HistReset EXCEPT !.prev_run = IF lastCall.op = "get_stats"
                                                 THEN stats.run_time ELSE 0 - 1]
        /\ UNCHANGED <<geomVars, regVars, allocVars, rthr, source, ranks>>

\* ------------------------------------------------------------------------
\* Execution between prepare_solution() and get_stats().

\* What the timers hold after a run.
RunSample == [run |-> MaxTime, ext |-> 0, int |-> MaxTime, halo |-> 0, wait |-> 0,
              test |-> 0]

\* run_solution() on prepared geometry: the timers and the step counters
\* advance, and the auto-tuner of each pack leaves the block sizes tuned in
\* the domain dimensions of the pack's local settings.
run_solution(tuned) ==
    /\ rank_bb.bb_valid
    /\ timers' = RunSample
    /\ steps_done' = MaxSteps
    /\ packs' = [p \in Packs |->
                   [timer |-> MaxTime,
                    steps_done |-> MaxSteps,
                    block_sizes |-> [d \in StencilDims |->
                                       IF d \in DomainDims THEN tuned[p][d]
                                       ELSE packs[p].block_sizes[d]]]]
    /\ lastCall' = [op |-> "run_solution", dim |-> "-", n |-> 0]
    /\ ret' = Ok(0)
    /\ hist' = HistReset
    /\ UNCHANGED <<geomVars, regVars, allocVars, rthr, stats, source, ranks>>

\* ------------------------------------------------------------------------
\* end_solution() statement by statement, on every rank of the job.

\* Number of ranks of the job.
NumRanks == 3

Ranks == 1..NumRanks

\* end_solution() with the MPI data released before the barrier.
EndSteps_clear_first ==
    <<"exchange_halos", "mpiData.clear", "global_barrier", "release_storage",
      "set_max_threads">>

\* The statements of end_solution(), in their order.
EndSteps ==
    <<"exchange_halos", "global_barrier", "mpiData.clear", "release_storage",
      "set_max_threads">>

\* A rank about to call end_solution() with the grid list grids, in which 0 is
\* a null handle: pc is the statement it is at (0: not called yet), i the
\* position of the release loop.
RankOf(grids) ==
    [pc |-> 0, i |-> 1, arrived |-> FALSE, exchanged |-> FALSE, mpiData |-> TRUE,
     grids |-> grids, held |-> Range(grids) \ {0}, threads |-> "region"]

\* TRUE when rank r is at the statement stmt of end_solution().
At(r, stmt) == ranks[r].pc \in DOMAIN EndSteps /\ EndSteps[ranks[r].pc] = stmt

\* Rank r calls end_solution().
end_solution_call(r) ==
    /\ ranks[r].pc = 0
    /\ ranks' = [ranks EXCEPT ![r].pc = 1]
    /\ UNCHANGED solnVars

\* exchange_halos();
end_exchange_halos(r) ==
    /\ At(r, "exchange_halos")
    /\ ranks' = [ranks EXCEPT ![r].exchanged = TRUE, ![r].pc = @ + 1]
    /\ UNCHANGED solnVars

\* env->global_barrier(): the rank arrives ...
global_barrier_arrive(r) ==
    /\ At(r, "global_barrier")
    /\ ~ranks[r].arrived
    /\ ranks' = [ranks EXCEPT ![r].arrived = TRUE]
    /\ UNCHANGED solnVars

\* ... and goes on once every rank has arrived.
global_barrier_leave(r) ==
    /\ At(r, "global_barrier")
    /\ \A q \in Ranks : ranks[q].arrived
    /\ ranks' = [ranks EXCEPT ![r].pc = @ + 1]
    /\ UNCHANGED solnVars

\* mpiData.clear();
end_mpiData_clear(r) ==
    /\ At(r, "mpiData.clear")
    /\ ranks' = [ranks EXCEPT ![r].mpiData = FALSE, ![r].pc = @ + 1]
    /\ UNCHANGED solnVars

\* for (auto gp : gridPtrs) { if (!gp) continue; gp->release_storage(); }
\* one iteration, or the end of the loop.
end_release_storage(r) ==
    LET rk == ranks[r]
    IN  /\ At(r, "release_storage")
        /\ ranks' = IF rk.i > Len(rk.grids)
                    THEN [ranks EXCEPT ![r].pc = @ + 1]
                    ELSE IF rk.grids[rk.i] = 0
                         THEN [ranks EXCEPT ![r].i = @ + 1]
                         ELSE [ranks EXCEPT ![r].held = @ \ {rk.grids[rk.i]},
                                            ![r].i = @ + 1]
        /\ UNCHANGED solnVars

\* set_max_threads();
end_set_max_threads(r) ==
    /\ At(r, "set_max_threads")
    /\ ranks' = [ranks EXCEPT ![r].threads = "max", ![r].pc = @ + 1]
    /\ UNCHANGED solnVars

\* ------------------------------------------------------------------------
\* The solution after construction.

InitOpts ==
    [rank_indices |-> [d \in DomainDims |-> 0],
     num_ranks |-> [d \in DomainDims |-> 0],
     rank_sizes |-> [d \in DomainDims |-> 0],
     region_sizes |-> [d \in StencilDims |-> 0],
     block_sizes |-> [d \in StencilDims |-> 0],
     min_pad_sizes |-> [d \in DomainDims |-> 0]]

EmptyMap == [k \in {} |-> 0]

\* The other solution: its grids Names, every one with storage or none.
SourceOf(Names, allocated) ==
    [gridMap |-> [g \in Names |-> SourceHandle(g)],
     storage |-> [h \in {SourceHandle(g) : g \in GridNames} |->
                     IF allocated THEN h ELSE 0]]

ZeroStats ==
    [times |-> Breakdown(ZeroTimers, 1), nsteps |-> 0, run_time |-> 0, halo_time |-> 0,
     nreads |-> 0, nwrites |-> 0, nfpops |-> 0,
     reads_ps |-> ZeroRate, writes_ps |-> ZeroRate, flops |-> ZeroRate, pts_ps |-> ZeroRate,
     pack |-> [p \in Packs |->
                 [nsteps |-> 0, run_time |-> 0, nreads |-> 0, nwrites |-> 0, nfpops |-> 0,
                  reads_ps |-> ZeroRate, writes_ps |-> ZeroRate, flops |-> ZeroRate,
                  pts_ps |-> ZeroRate]],
     optime |-> 0,
     raw |-> ZeroTimers, raw_pack |-> [p \in Packs |-> 0]]

InitCommon ==
    /\ opts = InitOpts
    /\ overall_domain_sizes = [d \in DomainDims |-> 0]
    /\ rank_bb = [bb_valid |-> FALSE,
                  bb_begin |-> [d \in DomainDims |-> 0],
                  bb_end |-> [d \in DomainDims |-> 0]]
    /\ ext_bb = [bb_valid |-> FALSE]
    /\ gridPtrs = <<>>
    /\ gridMap = EmptyMap
    /\ outputGridPtrs = <<>>
    /\ outputGridMap = EmptyMap
    /\ storage = [gp \in GridHandles |-> 0]
    /\ scratch = FALSE
    /\ mpiData = FALSE
    /\ threads = "max"
    /\ stats = ZeroStats
    /\ lastCall = [op |-> "new_solution", dim |-> "-", n |-> 0]
    /\ ret = Ok(0)
    /\ hist = [pre_valid |-> FALSE, pre_reg |-> <<>>, prev_run |-> 0 - 1,
               released |-> {}, dirty |-> FALSE, prepare_called |-> FALSE,
               ended |-> FALSE, shared |-> FALSE, pre_tuned |-> FALSE,
               calls |-> <<>>, registered |-> <<>>]

InitTimers ==
    /\ rthr = 1
    /\ timers = ZeroTimers
    /\ steps_done = 0
    /\ packs = [p \in Packs |-> [timer |-> 0, steps_done |-> 0,
                                  block_sizes |-> InitOpts.block_sizes]]

\* The ranks of the job, where only this rank's solution is looked at.
InitRanks == ranks = [r \in Ranks |-> RankOf(<<>>)]

\* ------------------------------------------------------------------------
\* The getters, the setters and prepare_solution().

InitAPI ==
    /\ InitCommon
    /\ InitRanks
    /\ InitTimers
    /\ source = SourceOf(GridNames, TRUE)

GetStep == \E api \in GetApis, dim \in Dims : GET_SOLN_API(api, dim)

SetStep == \E api \in SetApis, dim \in Dims, n \in Values : SET_SOLN_API(api, dim, n)

PrepareOk == prepare_solution("none")

NextAPI == GetStep \/ SetStep \/ PrepareOk

SpecAPI == InitAPI /\ [][NextAPI]_vars

\* ------------------------------------------------------------------------
\* The life of a solution: every operation, the setters called with the
\* value 0 only and the getters with the domain dimensions only.

Init ==
    /\ InitCommon
    /\ InitRanks
    /\ InitTimers
    /\ source = SourceOf({"temperature"}, TRUE)

GetDomain == \E api \in GetApis, dim \in DomainDims : GET_SOLN_API(api, dim)

SetZero == \E api \in SetApis, dim \in Dims : SET_SOLN_API(api, dim, 0)

PrepareStep == \E f \in FailPoints : prepare_solution(f)

EndStep == end_solution

ShareStep == share_grid_storage

AddGridStep == \E gp \in GridHandles, is_output \in BOOLEAN : addGrid(gp, is_output)

StatsStep == get_stats

Next ==
    \/ GetDomain
    \/ SetZero
    \/ PrepareStep
    \/ EndStep
    \/ ShareStep
    \/ AddGridStep
    \/ StatsStep

Spec == Init /\ [][Next]_vars

\* ------------------------------------------------------------------------
\* Preparing again and again: the sizes of the domain dimensions are set,
\* grids are registered, the solution is prepared, run and reported on.

SizeApis == {"set_rank_domain_size", "set_region_size", "set_block_size"}

SetSize == \E api \in SizeApis, dim \in DomainDims, n \in Values : SET_SOLN_API(api, dim, n)

RunStep == \E tuned \in [Packs -> [DomainDims -> Values]] : run_solution(tuned)

NextPrepare == SetSize \/ AddGridStep \/ PrepareOk \/ RunStep \/ StatsStep

SpecPrepare == Init /\ [][NextPrepare]_vars

\* ------------------------------------------------------------------------
\* The registry: addGrid() and share_grid_storage() against any source.

InitRegistry ==
    /\ InitCommon
    /\ InitRanks
    /\ InitTimers
    /\ \E Names \in SUBSET GridNames, allocated \in BOOLEAN :
          source = SourceOf(Names, allocated)

NextRegistry == AddGridStep \/ ShareStep

SpecRegistry == InitRegistry /\ [][NextRegistry]_vars

\* ------------------------------------------------------------------------
\* Sharing the storage of any source, before and after prepare_solution().

NextShare == AddGridStep \/ ShareStep \/ PrepareOk

SpecShare == InitRegistry /\ [][NextShare]_vars

\* ------------------------------------------------------------------------
\* The ranks of a prepared job end the solution, each at its own pace.

\* The grid lists a rank may hold: two grids, or a grid and a null handle.
GridLists == {<<1, 2>>, <<1, 0>>, <<0, 2>>}

InitEnd ==
    /\ InitCommon
    /\ InitTimers
    /\ source = SourceOf({"temperature"}, TRUE)
    /\ ranks \in [Ranks -> {RankOf(grids) : grids \in GridLists}]

NextEnd ==
    \E r \in Ranks :
        \/ end_solution_call(r)
        \/ end_exchange_halos(r)
        \/ global_barrier_arrive(r)
        \/ global_barrier_leave(r)
        \/ end_mpiData_clear(r)
        \/ end_release_storage(r)
        \/ end_set_max_threads(r)

SpecEnd == InitEnd /\ [][NextEnd]_vars

\* ------------------------------------------------------------------------
\* get_stats() on any samples the timers may hold.

TimerSamples == [run : 0..MaxTime, ext : 0..MaxTime, int : 0..MaxTime,
                 halo : 0..MaxTime, wait : 0..MaxTime, test : 0..MaxTime]

InitStats ==
    /\ InitCommon
    /\ InitRanks
    /\ source = SourceOf({"temperature"}, TRUE)
    /\ rthr \in 1..MaxThreads
    /\ timers \in TimerSamples
    /\ steps_done \in {0, MaxSteps}
    /\ \E t \in [Packs -> {0, MaxTime}] :
          packs = [p \in Packs |-> [timer |-> t[p], steps_done |-> steps_done,
                                    block_sizes |-> InitOpts.block_sizes]]

NextStats == StatsStep

SpecStats == InitStats /\ [][NextStats]_vars

\* ------------------------------------------------------------------------
\* Properties of the getters and setters.

\* The getter that reads what a setter writes.
GetterOf(api) ==
    CASE api = "set_rank_index" -> "get_rank_index"
      [] api = "set_num_ranks" -> "get_num_ranks"
      [] api = "set_rank_domain_size" -> "get_rank_domain_size"
      [] api = "set_region_size" -> "get_region_size"
      [] api = "set_block_size" -> "get_block_size"
      [] api = "set_min_pad_size" -> "get_min_pad_size"

\* The dimensions each parameter is documented to accept.
PermittedDims(api) ==
    IF api \in {"get_region_size", "set_region_size", "get_block_size", "set_block_size"}
    THEN StepDims \cup DomainDims
    ELSE DomainDims

\* The getters documented to need prepared geometry.
PreparedGetters == {"get_overall_domain_size", "get_first_rank_domain_index",
                    "get_last_rank_domain_index", "get_rank_index"}

SetSucceeded == lastCall.op \in SetApis /\ ret.status = "ok"

\* C1 as stated: after set(parameter, dim, v) with a permitted dimension, for
\* every settable parameter, a get(parameter, dim) succeeds and returns v.
C1_RoundTripEveryParameter ==
    (lastCall.op \in SetApis /\ lastCall.dim \in PermittedDims(lastCall.op))
        => /\ ret.status = "ok"
           /\ GetResult(GetterOf(lastCall.op), lastCall.dim) = Ok(lastCall.n)

\* C1 as amended: after set(parameter, dim, v) with a permitted dimension, a
\* get(parameter, dim) succeeds and returns v for rank count, rank domain
\* size, region size, block size and minimum pad size; set_rank_index stores
\* v, and the get_rank_index that follows it throws PreparationRequired.
C1_RoundTrip ==
    (lastCall.op \in SetApis /\ lastCall.dim \in PermittedDims(lastCall.op))
        => /\ ret.status = "ok"
           /\ IF lastCall.op = "set_rank_index"
              THEN /\ opts.rank_indices[lastCall.dim] = lastCall.n
                   /\ GetResult("get_rank_index", lastCall.dim)
                         = Thrown("PreparationRequired")
              ELSE GetResult(GetterOf(lastCall.op), lastCall.dim) = Ok(lastCall.n)

\* A block size was set in the step dimension and reads back.
C1_Witness ==
    /\ lastCall = [op |-> "set_block_size", dim |-> "t", n |-> MaxVal]
    /\ ret.status = "ok"
    /\ hist.pre_valid
    /\ GetResult("get_block_size", "t") = Ok(MaxVal)

\* C2 as stated: a getter or setter called with a dimension whose kind is not
\* permitted for its parameter throws InvalidDimensionKind, prepared or not.
C2_KindErrorAlways ==
    (lastCall.op \in GetApis \cup SetApis /\ lastCall.dim \notin PermittedDims(lastCall.op))
        => ret.status = "InvalidDimensionKind"

\* C2 as amended: such a call always throws; it throws InvalidDimensionKind,
\* except that a getter that needs prepared geometry, called while the rank
\* bounding box is invalid, throws PreparationRequired.
C2_KindError ==
    (lastCall.op \in GetApis \cup SetApis /\ lastCall.dim \notin PermittedDims(lastCall.op))
        => ret.status = IF lastCall.op \in PreparedGetters /\ ~hist.pre_valid
                        THEN "PreparationRequired"
                        ELSE "InvalidDimensionKind"

\* A getter that needs prepared geometry was given the step dimension after
\* prepare_solution() and threw the kind error.
C2_Witness ==
    /\ lastCall.op = "get_rank_index"
    /\ lastCall.dim = "t"
    /\ hist.pre_valid
    /\ ret.status = "InvalidDimensionKind"

\* C4: a getter that needs prepared geometry, called with a domain dimension
\* while the rank bounding box is invalid, throws PreparationRequired and
\* leaves the box invalid; every other getter succeeds in that state.
C4_PreparationRequired ==
    (lastCall.op \in GetApis /\ lastCall.dim \in DomainDims /\ ~hist.pre_valid)
        => /\ ret.status = IF lastCall.op \in PreparedGetters
                           THEN "PreparationRequired" ELSE "ok"
           /\ ~rank_bb.bb_valid

\* get_first_rank_domain_index("x") threw after a setter had invalidated the
\* geometry computed by an earlier prepare_solution().
C4_Witness ==
    /\ lastCall.op = "get_first_rank_domain_index"
    /\ lastCall.dim = "x"
    /\ hist.prepare_called
    /\ hist.dirty
    /\ ~hist.pre_valid
    /\ ret.status = "PreparationRequired"

\* C3: once a setter of rank index, rank count, rank domain size, region size
\* or block size has succeeded, the rank and the extended bounding box are
\* invalid, and stay so under every call until prepare_solution() computes
\* the rank geometry again.
C3_InvalidUntilPrepare ==
    hist.dirty => ~rank_bb.bb_valid /\ ~ext_bb.bb_valid

\* A report was made with the geometry still invalid after a setter had
\* invalidated what a completed prepare_solution() had computed.
C3_Witness ==
    /\ hist.dirty
    /\ scratch
    /\ gridPtrs # <<>>
    /\ lastCall.op = "get_stats"
    /\ ~rank_bb.bb_valid

\* ------------------------------------------------------------------------
\* Properties of the registry.

\* The names of the grids of a list.
NamesOf(ptrs) == {get_name(ptrs[i]) : i \in DOMAIN ptrs}

\* C5: addGrid of a grid whose name some grid of the master list carries
\* throws DuplicateGrid and leaves both lists and both maps as they were.
C5_DuplicateGrid ==
    (lastCall.op = "addGrid" /\ get_name(lastCall.n) \in NamesOf(hist.pre_reg[1]))
        => /\ ret.status = "DuplicateGrid"
           /\ <<gridPtrs, gridMap, outputGridPtrs, outputGridMap>> = hist.pre_reg

\* A second grid named as the first one was refused, with two grids
\* registered, one of them an output.
C5_Witness ==
    /\ lastCall = [op |-> "addGrid", dim |-> "-", n |-> 3]
    /\ ret.status = "DuplicateGrid"
    /\ 1 \in Range(gridPtrs)
    /\ Len(gridPtrs) = 2
    /\ Len(outputGridPtrs) = 1

\* ------------------------------------------------------------------------
\* Properties of get_stats(). The times of stats.times are multiples of
\* 1/den of a tick.

\* C6 as stated: for samples with wait <= halo <= run and
\* exterior + interior <= run, compute + halo_total + other = run and no
\* reported category is negative.
C6_Reconciliation ==
    LET t == stats.times
        raw == stats.raw
    IN  (lastCall.op = "get_stats" /\ raw.wait <= raw.halo /\ raw.halo <= raw.run
            /\ raw.ext + raw.int <= raw.run)
        => /\ t.ctime + t.htime + t.otime = t.rtime
           /\ \A x \in {t.hetime, t.wtime, t.etime, t.itime, t.ctime, t.htime, t.otime} :
                 x >= 0

\* C7 as stated: when test / region_thread_count exceeds the interior sample,
\* the reported interior time is zero and compute is not below exterior.
C7_InteriorClampedAtZero ==
    LET t == stats.times
        raw == stats.raw
    IN  (lastCall.op = "get_stats" /\ raw.test > raw.int * t.den)
        => t.itime = 0 /\ t.ctime >= t.etime

\* C8: get_stats() leaves every timer and every step counter at zero, and a
\* get_stats() that follows a get_stats() reports zero run time, halo time
\* and steps, and zero steps and time for every pack.
C8_ConsumedOnRead ==
    lastCall.op = "get_stats"
        => /\ timers = ZeroTimers
           /\ steps_done = 0
           /\ \A p \in Packs : packs[p].timer = 0 /\ packs[p].steps_done = 0
           /\ hist.prev_run >= 0
                => /\ stats.run_time = 0
                   /\ stats.halo_time = 0
                   /\ stats.nsteps = 0
                   /\ \A p \in Packs : stats.pack[p].nsteps = 0 /\ stats.pack[p].run_time = 0

\* A second report was made right after one that reported a run time.
C8_Witness ==
    /\ lastCall.op = "get_stats"
    /\ hist.prev_run > 0
    /\ stats.run_time = 0

\* ------------------------------------------------------------------------
\* Properties of end_solution().

\* C9 as stated: end_solution() on a solution prepare_solution() was never
\* called on succeeds and releases the storage of no grid.
C9_ReleasesNothing ==
    (lastCall.op = "end_solution" /\ ~hist.prepare_called)
        => ret.status = "ok" /\ hist.released = {}

\* C9 as amended: end_solution() on a solution prepare_solution() was never
\* called on succeeds; it releases the storage of no grid when
\* share_grid_storage() was never called, and otherwise only of grids that
\* carry the name of a grid of the source.
C9_ReleasesOnlyShared ==
    (lastCall.op = "end_solution" /\ ~hist.prepare_called)
        => /\ ret.status = "ok"
           /\ ~hist.shared => hist.released = {}
           /\ \A gp \in hist.released : get_name(gp) \in DOMAIN source.gridMap
           /\ \A gp \in GridHandles : storage[gp] = 0

\* end_solution() was called with two grids registered, prepare_solution()
\* never called, and released the one that shared the source's storage.
C9_Witness ==
    /\ lastCall.op = "end_solution"
    /\ ~hist.prepare_called
    /\ Len(gridPtrs) = 2
    /\ hist.released = {1}

\* C10 as stated: once end_solution() has completed, no later call allocates
\* storage again or serves a getter that needs prepared geometry.
C10_NoWayBackFromEnded ==
    hist.ended
        => /\ ~mpiData
           /\ \A gp \in GridHandles : storage[gp] # gp
           /\ ~(lastCall.op \in PreparedGetters /\ ret.status = "ok")

\* ------------------------------------------------------------------------
\* Properties of share_grid_storage().

\* C11: share_grid_storage() succeeds whatever names match; every registered
\* grid whose name the source registers refers to the storage of the source's
\* grid of that name afterwards, every other grid keeps its storage, and the
\* source's grids and storage and the lists and maps of both solutions are
\* as before the call.
C11_ShareFrame ==
    [][lastCall'.op = "share_grid_storage"
        => /\ ret'.status = "ok"
           /\ \A gp \in GridHandles :
                 storage'[gp] =
                    IF gp \in Range(gridPtrs) /\ get_name(gp) \in DOMAIN source.gridMap
                    THEN source.storage[SourceHandle(get_name(gp))]
                    ELSE storage[gp]
           /\ source' = source
           /\ regVars' = regVars]_vars

\* Two grids are registered and allocated, the source has a grid named like
\* the first only: the first shares the source's storage and the second has
\* kept its own.
C11_Witness ==
    /\ lastCall.op = "share_grid_storage"
    /\ Range(gridPtrs) = {1, 2}
    /\ DOMAIN source.gridMap = {"temperature"}
    /\ storage[1] = SourceHandle("temperature")
    /\ storage[2] = 2

\* ------------------------------------------------------------------------
\* Properties of set_min_pad_size().

\* C12: set_min_pad_size leaves the validity flags of the rank and of the
\* extended bounding box as they were, so every getter that needs prepared
\* geometry and succeeded before the call succeeds after it; and of the
\* sizing parameters it changes the minimum pad size of the given dimension
\* only.
C12_MinPadFrame ==
    [][lastCall'.op = "set_min_pad_size"
        => /\ rank_bb'.bb_valid = rank_bb.bb_valid
           /\ ext_bb'.bb_valid = ext_bb.bb_valid
           /\ \A api \in PreparedGetters, dim \in DomainDims :
                 GetResult(api, dim).status = "ok" => GetResult(api, dim)'.status = "ok"
           /\ opts' = IF ret'.status = "ok"
                      THEN [opts EXCEPT !.min_pad_sizes[lastCall'.dim] = lastCall'.n]
                      ELSE opts]_vars

\* The minimum pad size was changed on a prepared solution, and the getters
\* that need prepared geometry still succeed.
C12_Witness ==
    /\ lastCall = [op |-> "set_min_pad_size", dim |-> "x", n |-> MaxVal]
    /\ ret.status = "ok"
    /\ hist.pre_valid
    /\ rank_bb.bb_valid
    /\ ext_bb.bb_valid
    /\ opts.min_pad_sizes["x"] = MaxVal
    /\ \A api \in PreparedGetters : GetResult(api, "x").status = "ok"

\* ------------------------------------------------------------------------
\* Properties of prepare_solution().

\* C13: whatever was set, registered, run and reported before, and however
\* often the solution was prepared before, a prepare_solution() that returns
\* leaves every timer and step counter at zero, the settings normalized,
\* every pack's local settings equal to them, both bounding boxes valid and
\* computed from them so that every getter that needs prepared geometry
\* succeeds, and the grids, the scratch grids and the MPI buffers allocated.
C13_PrepareRepeatable ==
    (lastCall.op = "prepare_solution" /\ ret.status = "ok")
        => /\ timers = ZeroTimers
           /\ steps_done = 0
           /\ \A p \in Packs : packs[p].timer = 0 /\ packs[p].steps_done = 0
           /\ opts = adjustSettings(opts)
           /\ \A p \in Packs : packs[p].block_sizes = opts.block_sizes
           /\ rank_bb.bb_valid
           /\ ext_bb.bb_valid
           /\ \A d \in DomainDims : rank_bb.bb_end[d] - rank_bb.bb_begin[d] = opts.rank_sizes[d]
           /\ \A api \in PreparedGetters, d \in DomainDims : GetResult(api, d).status = "ok"
           /\ \A gp \in Range(gridPtrs) : storage[gp] # 0
           /\ scratch
           /\ mpiData

\* The solution was prepared again after a run that was reported on and had
\* left the packs' block sizes tuned away from the settings, with a grid
\* registered and a rank size set.
C13_Witness ==
    /\ lastCall.op = "prepare_solution"
    /\ ret.status = "ok"
    /\ hist.pre_tuned
    /\ stats.run_time > 0
    /\ gridPtrs # <<>>
    /\ opts.rank_sizes["x"] = MaxVal
    /\ opts.block_sizes["x"] = MaxVal

\* C14 as stated: a prepare_solution() in which adjustSettings, setupRank or
\* an allocation throws passes the failure on, makes no call after the one
\* that threw, and returns with the geometry invalid, so that every getter
\* that needs prepared geometry throws PreparationRequired.
C14_FailedPrepareNotPrepared ==
    (lastCall.op = "prepare_solution" /\ hist.calls # <<>>
        /\ hist.calls[Len(hist.calls)] \in FailPoints)
        => /\ ret.status # "ok"
           /\ ~rank_bb.bb_valid
           /\ \A api \in PreparedGetters, d \in DomainDims :
                 GetResult(api, d).status = "PreparationRequired"

\* ------------------------------------------------------------------------
\* Properties of the overall domain size.

\* C15 as stated: with prepare_solution() never called, after a
\* set_rank_domain_size or a set_num_ranks of a domain dimension
\* get_overall_domain_size of that dimension succeeds and returns the rank
\* domain size times the number of ranks.
C15_OverallWithoutPrepare ==
    (lastCall.op \in {"set_rank_domain_size", "set_num_ranks"} /\ ret.status = "ok"
        /\ ~hist.prepare_called)
        => GetResult("get_overall_domain_size", lastCall.dim)
              = Ok(opts.rank_sizes[lastCall.dim] * opts.num_ranks[lastCall.dim])

\* C15 as amended: after a set_rank_domain_size or a set_num_ranks of a
\* domain dimension the stored overall domain size of that dimension is the
\* rank domain size times the number of ranks, and get_overall_domain_size
\* throws PreparationRequired; after a prepare_solution() that returned it
\* returns that product for every domain dimension.
C15_OverallAfterSet ==
    /\ (lastCall.op \in {"set_rank_domain_size", "set_num_ranks"} /\ ret.status = "ok")
          => /\ overall_domain_sizes[lastCall.dim]
                    = opts.rank_sizes[lastCall.dim] * opts.num_ranks[lastCall.dim]
             /\ GetResult("get_overall_domain_size", lastCall.dim)
                    = Thrown("PreparationRequired")
    /\ (lastCall.op = "prepare_solution" /\ ret.status = "ok")
          => \A d \in DomainDims :
                GetResult("get_overall_domain_size", d)
                   = Ok(opts.rank_sizes[d] * opts.num_ranks[d])

\* The number of ranks was set after the rank domain size on a solution
\* never prepared, both to a value that is not zero.
C15_Witness ==
    /\ lastCall = [op |-> "set_num_ranks", dim |-> "x", n |-> MaxVal]
    /\ ret.status = "ok"
    /\ ~hist.prepare_called
    /\ opts.rank_sizes["x"] = MaxVal
    /\ overall_domain_sizes["x"] = MaxVal * MaxVal

\* ------------------------------------------------------------------------
\* The order of the calls of prepare_solution().

\* The steps of prepare() in the documented order.
DocumentedOrder ==
    <<"global_barrier", "clear_timers", "adjustSettings", "getLocalSettings",
      "reset_auto_tuner", "set_region_threads", "yask_for", "setupRank",
      "freeScratchData", "freeMpiData", "allocGridData",
      "allocScratchData", "allocMpiData", "print_info">>

\* In the sequence calls, b is not called unless a was called before it.
Precedes(a, b, calls) ==
    \A j \in DOMAIN calls :
        calls[j] = b => \E i \in 1..(j - 1) : calls[i] = a

\* C16: the calls of every prepare_solution(), whether it returns or throws,
\* are made in this order: global barrier, timer reset, settings
\* normalization, copy of the settings to the packs, auto-tuner reset, region
\* thread count, warm-up loop, rank geometry, free scratch, free MPI buffers,
\* allocate grids, allocate scratch, allocate MPI buffers, summary; scratch
\* and MPI buffers are freed before anything is allocated, and neither
\* scratch nor MPI buffers are allocated before the grids.
C16_PrepareOrder ==
    lastCall.op = "prepare_solution"
        => /\ hist.calls # <<>>
           /\ Len(hist.calls) <= Len(DocumentedOrder)
           /\ \A i \in DOMAIN hist.calls : hist.calls[i] = DocumentedOrder[i]
           /\ ret.status = "ok" => hist.calls = DocumentedOrder
           /\ \A free \in {"freeScratchData", "freeMpiData"},
                 alloc \in {"allocGridData", "allocScratchData", "allocMpiData"} :
                 Precedes(free, alloc, hist.calls)
           /\ Precedes("allocGridData", "allocScratchData", hist.calls)
           /\ Precedes("allocGridData", "allocMpiData", hist.calls)

\* A solution with a grid was prepared, every call was made and everything
\* is allocated.
C16_Witness ==
    /\ lastCall.op = "prepare_solution"
    /\ ret.status = "ok"
    /\ hist.calls = DocumentedOrder
    /\ gridPtrs # <<>>
    /\ \A gp \in Range(gridPtrs) : storage[gp] # 0
    /\ scratch
    /\ mpiData

\* ------------------------------------------------------------------------
\* Further properties of get_stats().

\* C17 as stated: for any samples that are not negative and any number of
\* region threads from 1 on, compute + halo_total + other is at most the run
\* time, and the reported halo time is at most the run time.
C17_CategoriesWithinRun ==
    LET t == stats.times
    IN  lastCall.op = "get_stats"
        => /\ t.ctime + t.htime + t.otime <= t.rtime
           /\ stats.halo_time <= stats.run_time

\* The sum of the reported times of the packs 1..n.
RECURSIVE ReportedUpTo(_)
ReportedUpTo(n) == IF n = 0 THEN 0 ELSE ReportedUpTo(n - 1) + stats.pack[n].run_time

\* C18 as stated: the reported time of every pack is the smaller of its own
\* elapsed time and the compute time less the times reported for the packs
\* before it; after every pack the sum of the reported times is at most the
\* compute time; no reported pack time is negative; and the reported pack
\* times and the unattributed time add up to the compute time.
C18_PackRollup ==
    LET t == stats.times
    IN  lastCall.op = "get_stats"
        => /\ \A n \in Packs :
                 /\ stats.pack[n].run_time
                       = Min(stats.raw_pack[n] * t.den, t.ctime - ReportedUpTo(n - 1))
                 /\ ReportedUpTo(n) <= t.ctime
                 /\ stats.pack[n].run_time >= 0
           /\ ReportedUpTo(NumPacks) + stats.optime = t.ctime

\* The four rates of a record of stats.
RatesOf(st) == {st.reads_ps, st.writes_ps, st.flops, st.pts_ps}

\* C19: no rate get_stats() reports is a quotient by a time that is zero or
\* negative: the rates of a pack are its reads, writes, operations and points
\* over its reported time when that time is > 0 and exactly zero otherwise,
\* and the overall rates are the totals over the run time when the run time
\* is > 0 and exactly zero otherwise, whatever the samples and step counts.
C19_NoDivisionByZero ==
    LET t == stats.times
    IN  lastCall.op = "get_stats"
        => /\ \A p \in Packs :
                 LET ps == stats.pack[p]
                 IN  /\ \A rate \in RatesOf(ps) : rate.over > 0
                     /\ IF ps.run_time > 0
                        THEN /\ ps.reads_ps = [num |-> ps.nreads * t.den, over |-> ps.run_time]
                             /\ ps.writes_ps = [num |-> ps.nwrites * t.den, over |-> ps.run_time]
                             /\ ps.flops = [num |-> ps.nfpops * t.den, over |-> ps.run_time]
                             /\ ps.pts_ps = [num |-> tot_domain_pts * ps.nsteps * t.den,
                                              over |-> ps.run_time]
                        ELSE RatesOf(ps) = {[num |-> 0, over |-> 1]}
           /\ \A rate \in RatesOf(stats) : rate.over > 0
           /\ IF stats.run_time > 0
              THEN /\ stats.reads_ps = [num |-> stats.nreads * t.den, over |-> stats.run_time]
                   /\ stats.writes_ps = [num |-> stats.nwrites * t.den, over |-> stats.run_time]
                   /\ stats.flops = [num |-> stats.nfpops * t.den, over |-> stats.run_time]
                   /\ stats.pts_ps = [num |-> tot_domain_pts * stats.nsteps * t.den,
                                       over |-> stats.run_time]
              ELSE RatesOf(stats) = {[num |-> 0, over |-> 1]}

\* A report was made of a run with steps done in which the first pack was
\* given a negative time and no rate, and the overall rates were computed.
C19_Witness ==
    /\ lastCall.op = "get_stats"
    /\ stats.pack[1].run_time < 0
    /\ stats.pack[1].nreads > 0
    /\ stats.pack[1].reads_ps = ZeroRate
    /\ stats.run_time > 0
    /\ stats.reads_ps.num > 0

\* ------------------------------------------------------------------------
\* Properties of end_solution() on several ranks.

\* The grids whose storage a rank has released.
Released(rk) == (Range(rk.grids) \ {0}) \ rk.held

\* C20: every rank goes through end_solution() in this order: final halo
\* exchange, barrier, release of the MPI buffers, release of the storage of
\* every grid that is not a null handle, reset of the thread count; and no
\* rank has released its MPI buffers or the storage of a grid while some rank
\* has not finished its final halo exchange.
C20_EndOrder ==
    \A r \in Ranks :
        LET rk == ranks[r]
        IN  /\ rk.arrived => rk.exchanged
            /\ ~rk.mpiData => rk.arrived
            /\ Released(rk) # {} => ~rk.mpiData
            /\ rk.threads = "max" => rk.held = {} /\ ~rk.mpiData
            /\ (~rk.mpiData \/ Released(rk) # {})
                  => \A q \in Ranks : ranks[q].exchanged

\* The first rank, with a null handle in its grid list, has returned from
\* end_solution() with nothing held, while the second is still between the
\* barrier and the release of its MPI buffers.
C20_Witness ==
    /\ ranks[1].grids = <<1, 0>>
    /\ ranks[1].pc = Len(EndSteps) + 1
    /\ ranks[1].held = {}
    /\ ranks[1].threads = "max"
    /\ ranks[2].mpiData
    /\ ranks[2].exchanged
    /\ At(2, "mpiData.clear")

\* ------------------------------------------------------------------------
\* The registry after any calls of addGrid().

\* TRUE when map has the names of the grids of ptrs as its keys and maps
\* each name to the grid of the list that carries it.
MapsList(map, ptrs) ==
    /\ DOMAIN map = NamesOf(ptrs)
    /\ \A i \in DOMAIN ptrs : map[get_name(ptrs[i])] = ptrs[i]

\* The grids of the registrations reg, in their order.
HandlesOf(reg) == [i \in DOMAIN reg |-> reg[i][1]]

\* C21: after any calls of addGrid(), refused or not, no two grids of the
\* master list carry one name; the master list holds the grids that were
\* accepted, in the order of their registration, and the output list those
\* of them registered with is_output, in the same order; and each map has
\* the names of its list as keys and maps every name to the listed grid.
C21_RegistryInvariant ==
    /\ \A i, j \in DOMAIN gridPtrs :
          get_name(gridPtrs[i]) = get_name(gridPtrs[j]) => i = j
    /\ gridPtrs = HandlesOf(hist.registered)
    /\ outputGridPtrs = HandlesOf(SelectSeq(hist.registered, LAMBDA e : e[2]))
    /\ MapsList(gridMap, gridPtrs)
    /\ MapsList(outputGridMap, outputGridPtrs)

\* Two grids are registered, the second of them as an output, and a grid
\* named like one of them has just been refused.
C21_Witness ==
    /\ lastCall.op = "addGrid"
    /\ ret.status = "DuplicateGrid"
    /\ gridPtrs = <<1, 2>>
    /\ outputGridPtrs = <<2>>
    /\ DOMAIN gridMap = GridNames
    /\ DOMAIN outputGridMap = {"pressure"}

\* ------------------------------------------------------------------------
\* What a refused setter and a getter leave alone.

\* C22: a setter that throws on the kind of its dimension, and every getter
\* whether it returns or throws, leaves every setting of every dimension,
\* the overall domain sizes and both bounding boxes with their validity
\* flags as they were before the call.
C22_NoEffect ==
    [][((lastCall'.op \in SetApis /\ ret'.status # "ok") \/ lastCall'.op \in GetApis)
        => /\ opts' = opts
           /\ overall_domain_sizes' = overall_domain_sizes
           /\ rank_bb' = rank_bb
           /\ ext_bb' = ext_bb]_vars

\* set_block_size was refused for the misc dimension on a prepared solution
\* with a rank size set, and the geometry is still valid.
C22_Witness ==
    /\ lastCall = [op |-> "set_block_size", dim |-> "m", n |-> MaxVal]
    /\ ret.status = "InvalidDimensionKind"
    /\ hist.pre_valid
    /\ rank_bb.bb_valid
    /\ ext_bb.bb_valid
    /\ opts.rank_sizes["x"] = MaxVal

====
